---------------------------- MODULE Spec2Model ----------------------------
(***************************************************************************)
(* Model of examples/good/auth-example.py: the sliding-window RateLimiter, *)
(* the login flow (RateLimiter.__call__ around login_endpoint and          *)
(* AuthService.authenticate_user) and the token codec                      *)
(* (_create_access_token, _create_refresh_token, verify_token).            *)
(*                                                                         *)
(* Time is in whole seconds.  The code runs on one asyncio event loop: a   *)
(* coroutine runs without interruption up to an await that really          *)
(* suspends.  check_rate_limit contains no await, so one call is one step. *)
(***************************************************************************)
EXTENDS Integers, Sequences, FiniteSets, TLC

\* ------------------------------------------------------------ constants
\* rate_limiter = RateLimiter(max_attempts=5, window=300)
MaxAttempts == 5
Window == 300

\* AuthService.__init__
AccessTokenExpireMinutes == 60
RefreshTokenExpireDays == 7

\* None of Python: an absent keyword argument, a store miss, no exception.
None == "None"

\* ------------------------------------------------------------ bounds
\* check_rate_limit calls made, over all keys, in the rate-limiter runs.
MaxCalls == 8
\* Callers that call check_rate_limit for one key at once in the burst run.
NumCallers == 20

\* login_endpoint calls made in the login runs.
MaxLogins == 6
\* Tokens clients hold in the token runs.
MaxTokens == 2

\* Rate-limit keys: a client address and the wrapper's default key.
Keys == {"10.0.0.1", "unknown"}

\* Inputs of login_endpoint.  None stands for an omitted keyword argument.
Emails == {"a@x.com", "missing@x.com"}
Passwords == {"pw1", "wrong"}
TraceIds == {"trace-1", None}
ClientIps == {"10.0.0.1", None}
\* Login requests in flight at once.
Slots == {1, 2}
\* Values secrets.token_urlsafe(32) may return.
Jtis == {"jti-1", "jti-2"}
\* What goes wrong in the collaborators during one login, if anything.
Faults == {"none", "store", "codec"}

\* Instants at which the clock is read in the rate-limiter runs: the start,
\* and the instants just before, at and just after one window later.
RLClock == {0, 1, Window - 1, Window, Window + 1}
\* Instants of the burst run: all inside one window.
BurstClock == {0, 1, Window - 1}
\* Instants of the login runs.
LoginClock == {0, Window}

VARIABLES
    now,        \* datetime.utcnow(), seconds
    attempts,   \* RateLimiter.attempts: key -> list of timestamps
    pending,    \* key -> check_rate_limit calls issued and not yet run
    last,       \* the latest check_rate_limit call: key, time, result, list before
    admitted,   \* history: key -> timestamps of every admitted call
    epoch,      \* history: key -> calls counted since its window was last empty
    lastDenied, \* history: key -> time of the latest denied call, -1 if none
    reqs,       \* slot -> the login_endpoint call running in it
    logins,     \* login_endpoint calls made so far
    wallet,     \* tokens issued to clients
    verdict,    \* the latest verify_token call: token, time, result
    seen,       \* history: the error codes verify_token has raised so far
    verified    \* history: key -> times of the password verifications observed

rlvars == <<now, attempts, pending, last, admitted, epoch, lastDenied>>
vars == <<now, attempts, pending, last, admitted, epoch, lastDenied,
          reqs, logins, wallet, verdict, seen, verified>>

\* ------------------------------------------------------------ RateLimiter
\* Mutant: the window is taken one second short.
cutoff_short(t) == t - Window + 1

\* cutoff = now - timedelta(seconds=self.window)
cutoff(t) == t - Window

\* Mutant: an attempt exactly one window old is kept.
prune_ge(seq, t) == SelectSeq(seq, LAMBDA attempt : attempt >= cutoff(t))

\* [attempt for attempt in self.attempts[key] if attempt > cutoff]
prune(seq, t) == SelectSeq(seq, LAMBDA attempt : attempt > cutoff(t))

\* Mutant: the comparison is strict, one attempt too many gets through.
limit_reached_gt(seq) == Len(seq) > MaxAttempts

\* len(self.attempts[key]) >= self.max_attempts
limit_reached(seq) == Len(seq) >= MaxAttempts

\* Mutant: the append is lost.
record_attempt_lost(seq, t) == seq

\* self.attempts[key].append(now)
record_attempt(seq, t) == Append(seq, t)

\* Mutant: the attempt is recorded before the limit is checked.
check_rate_limit_record_first(seq, t) ==
    LET pruned == prune(seq, t)
    IN  IF limit_reached(pruned)
        THEN [ok |-> FALSE, seq |-> record_attempt(pruned, t)]
        ELSE [ok |-> TRUE, seq |-> record_attempt(pruned, t)]

\* Mutant: the count is read off the list as it was, and the list is pruned
\* afterwards.
check_rate_limit_prune_late(seq, t) ==
    LET pruned == prune(seq, t)
    IN  IF limit_reached(seq)
        THEN [ok |-> FALSE, seq |-> pruned]
        ELSE [ok |-> TRUE, seq |-> record_attempt(pruned, t)]

\* One call of check_rate_limit on a key whose list is seq, at time t:
\* the value returned and the list the key is left with.
check_rate_limit(seq, t) ==
    LET pruned == prune(seq, t)
    IN  IF limit_reached(pruned)
        THEN [ok |-> FALSE, seq |-> pruned]
        ELSE [ok |-> TRUE, seq |-> record_attempt(pruned, t)]

\* ------------------------------------------------------------ history
\* Timestamps of seq inside the trailing interval (t - Window, t].
InTrailing(seq, t) == {i \in 1..Len(seq) : seq[i] > t - Window /\ seq[i] <= t}

NoEpoch == [start |-> -1, calls |-> 0, ok |-> 0]

\* The epoch of a key counts the calls made within one window that started
\* with no admitted call in the trailing window.
EpochAfter(e, log, t, ok) ==
    IF InTrailing(log, t) = {}
    THEN [start |-> t, calls |-> 1, ok |-> IF ok THEN 1 ELSE 0]
    ELSE IF e.start >= 0 /\ t < e.start + Window
         THEN [e EXCEPT !.calls = @ + 1, !.ok = @ + IF ok THEN 1 ELSE 0]
         ELSE NoEpoch

\* Mutant: the limiter keeps one list for all keys.
RateLimitStep_shared(k) ==
    LET r == check_rate_limit(attempts["unknown"], now)
    IN  /\ attempts' = [j \in Keys |-> r.seq]
        /\ last' = [key |-> k, t |-> now, ok |-> r.ok, pre |-> attempts[k]]
        /\ admitted' = IF r.ok THEN [admitted EXCEPT ![k] = Append(@, now)]
                       ELSE admitted
        /\ epoch' = [epoch EXCEPT ![k] = EpochAfter(@, admitted[k], now, r.ok)]
        /\ lastDenied' = IF r.ok THEN lastDenied
                         ELSE [lastDenied EXCEPT ![k] = now]

\* The effect of one check_rate_limit(k) call at the current time on the
\* limiter and on the history.
RateLimitStep(k) ==
    LET r == check_rate_limit(attempts[k], now)
    IN  /\ attempts' = [attempts EXCEPT ![k] = r.seq]
        /\ last' = [key |-> k, t |-> now, ok |-> r.ok, pre |-> attempts[k]]
        /\ admitted' = IF r.ok THEN [admitted EXCEPT ![k] = Append(@, now)]
                       ELSE admitted
        /\ epoch' = [epoch EXCEPT ![k] = EpochAfter(@, admitted[k], now, r.ok)]
        /\ lastDenied' = IF r.ok THEN lastDenied
                         ELSE [lastDenied EXCEPT ![k] = now]

\* ------------------------------------------------------------ token codec
\* timedelta(minutes=...), timedelta(days=...) in seconds
AccessTTL == AccessTokenExpireMinutes * 60
RefreshTTL == RefreshTokenExpireDays * 24 * 60 * 60

\* self.jwt_secret = settings.JWT_SECRET_KEY; a key the service does not hold
jwt_secret == "JWT_SECRET_KEY"
OtherKey == "attacker-key"
jwt_algorithm == "HS256"

\* The signature of a payload under a key: only the holder of the key can
\* make it, and it fits no other payload.
Sign(payload, key) == <<jwt_algorithm, key, payload>>

\* jwt.encode(payload, key, algorithm): the payload with its signature.
jwt_encode(payload, key) == [payload |-> payload, sig |-> Sign(payload, key)]

\* jwt.decode(token, key, algorithms): the signature is checked first, then
\* the expiry; otherwise the payload is returned.
jwt_decode(tok, key, t) ==
    IF tok.sig # Sign(tok.payload, key) THEN [exc |-> "JWTError", payload |-> tok.payload]
    ELSE IF t > tok.payload.exp THEN [exc |-> "ExpiredSignatureError", payload |-> tok.payload]
    ELSE [exc |-> None, payload |-> tok.payload]

\* _create_access_token: exp is read from the clock at t_exp, iat at t_iat.
create_access_token(user_id, t_exp, t_iat) ==
    jwt_encode([sub |-> user_id, exp |-> t_exp + AccessTTL, iat |-> t_iat,
                type |-> "access", jti |-> None], jwt_secret)

\* _create_refresh_token
create_refresh_token(user_id, t_exp, t_iat, jti) ==
    jwt_encode([sub |-> user_id, exp |-> t_exp + RefreshTTL, iat |-> t_iat,
                type |-> "refresh", jti |-> jti], jwt_secret)

\* What a call returns or raises.
Returned(v) == [raised |-> None, message |-> None, error_code |-> None,
                trace_id |-> None, status_code |-> 0, returned |-> TRUE, value |-> v]
Raised(cls, msg, code, trace_id, status) ==
    [raised |-> cls, message |-> msg, error_code |-> code, trace_id |-> trace_id,
     status_code |-> status, returned |-> FALSE, value |-> None]
NoOut == [raised |-> None, message |-> None, error_code |-> None,
          trace_id |-> None, status_code |-> 0, returned |-> FALSE, value |-> None]

\* Instants of the token runs: the start, and the instants at which an access
\* token and a refresh token issued at 1 reach their expiry, one issued at 0
\* having passed it.
TokClock == {0, 1, AccessTTL + 1, RefreshTTL + 1}

\* Mutant: the type of the token is not looked at.
type_mismatch_ignored(payload, expected) == FALSE

\* payload.get("type") != "access"
type_mismatch(payload, expected) == payload.type # expected

\* Mutant: the handlers are in the other order and JWTError, the base class
\* of ExpiredSignatureError, takes the expired token too.
token_error_code_base_first(exc) == "AUTH_004"

\* except jwt.ExpiredSignatureError / except jwt.JWTError
token_error_code(exc) == IF exc = "ExpiredSignatureError" THEN "AUTH_003" ELSE "AUTH_004"

token_error_message(exc) ==
    IF exc = "ExpiredSignatureError" THEN "Token has expired" ELSE "Invalid token"

\* Mutant: the type is looked at before the token is decoded and its expiry
\* checked.
validate_type_first(tok, expected, trace_id, t) ==
    LET d == jwt_decode(tok, jwt_secret, t)
    IN  IF type_mismatch(tok.payload, expected)
        THEN Raised("AuthorizationError", "Invalid token type", "AUTH_002", trace_id, 0)
        ELSE IF d.exc # None
        THEN Raised("AuthorizationError", token_error_message(d.exc),
                    token_error_code(d.exc), trace_id, 0)
        ELSE Returned(d.payload.sub)

\* The body of verify_token with the kind it expects as a parameter.
validate(tok, expected, trace_id, t) ==
    LET d == jwt_decode(tok, jwt_secret, t)
    IN  IF d.exc # None
        THEN Raised("AuthorizationError", token_error_message(d.exc),
                    token_error_code(d.exc), trace_id, 0)
        ELSE IF type_mismatch(d.payload, expected)
        THEN Raised("AuthorizationError", "Invalid token type", "AUTH_002", trace_id, 0)
        ELSE Returned(d.payload.sub)

\* AuthService.verify_token: access tokens only.
verify_token(tok, trace_id, t) == validate(tok, "access", trace_id, t)

\* ------------------------------------------------------------ user store
\* bcrypt: the hash of a password under a salt, and bcrypt.checkpw, which
\* hashes the plain password under the salt of the stored hash and compares.
bcrypt_hashpw(password, salt) == <<"$2b$12$", salt, password>>
checkpw(plain_password, hashed_password) ==
    bcrypt_hashpw(plain_password, hashed_password[2]) = hashed_password

\* Mutant: every password passes.
verify_password_always(plain_password, hashed_password) == TRUE

\* AuthService._verify_password
verify_password(plain_password, hashed_password) ==
    checkpw(plain_password, hashed_password)

\* The user store: one identity.
Users == {[id |-> "u1", email |-> "a@x.com", name |-> "A",
           password_hash |-> bcrypt_hashpw("pw1", "salt-1")]}
NoUser == [id |-> None, email |-> None, name |-> None, password_hash |-> <<>>]

\* User.get_by_email
get_by_email(email) ==
    IF \E u \in Users : u.email = email
    THEN CHOOSE u \in Users : u.email = email
    ELSE NoUser

\* ------------------------------------------------------------ AuthService
\* The message of both AuthenticationError raises.
InvalidCredentialsMessage == "ID mataha password ga tadashiku arimasen"

\* raise AuthenticationError(...) after a failed password check
wrong_password_error(trace_id) ==
    Raised("AuthenticationError", InvalidCredentialsMessage, "AUTH_001", trace_id, 0)

\* Mutant: the miss of the store reaches the caller as it was raised.
user_not_found_error_leak(trace_id) ==
    Raised("UserNotFoundException", "User not found", "USER_001", trace_id, 0)

\* except UserNotFoundException: raise AuthenticationError(...)
user_not_found_error(trace_id) ==
    Raised("AuthenticationError", InvalidCredentialsMessage, "AUTH_001", trace_id, 0)

\* raise HTTPException(status_code=429, detail="Rate limit exceeded")
rate_limit_error == Raised("HTTPException", "Rate limit exceeded", None, None, 429)

\* uuid is used by login_endpoint and imported nowhere in the module.
uuid_name_error == Raised("NameError", "name 'uuid' is not defined", None, None, 0)

\* Failures of the collaborators, as they raise them.
store_error == Raised("ConnectionError", "could not connect to db-1:5432", None, None, 0)
codec_error == Raised("TypeError", "Expecting a string- or bytes-formatted key.", None, None, 0)

\* One record of the logger.
LogRec(level, msg, trace_id, user_id, error) ==
    [level |-> level, msg |-> msg, trace_id |-> trace_id, user_id |-> user_id,
     error |-> error]

\* except Exception as e: logger.error(...); raise
unexpected(e, trace_id, steps, log, issued) ==
    [out |-> e,
     steps |-> steps,
     log |-> Append(log, LogRec("ERROR", "Unexpected error during authentication",
                                trace_id, None, e.message)),
     issued |-> issued]

\* The success envelope of authenticate_user.
envelope(user, access_token, refresh_token, trace_id, t) ==
    [data |-> [user |-> [id |-> user.id, email |-> user.email, name |-> user.name],
               access_token |-> access_token,
               refresh_token |-> refresh_token,
               token_type |-> "bearer"],
     error |-> None,
     meta |-> [trace_id |-> trace_id, timestamp |-> t]]

\* Mutant: the limiter's answer is not acted on.
admit_gate_open(ok) == TRUE

\* if not await self.check_rate_limit(client_ip): raise HTTPException
admit_gate(ok) == ok

\* Mutant: a call that gives no client_ip is counted with the calls of an
\* address.
rate_limit_key_address(client_ip) ==
    IF client_ip = None THEN "10.0.0.1" ELSE client_ip

\* client_ip = kwargs.get("client_ip", "unknown")
rate_limit_key(client_ip) == IF client_ip = None THEN "unknown" ELSE client_ip

\* authenticate_user from the answer of User.get_by_email on: what the call
\* returns or raises, the collaborator calls it made, what it logged and the
\* tokens it created.  req is the call, fault what fails in it, jti the
\* random token id.  reads are the four readings of the clock the two token
\* constructors take, in the order they take them (access exp, access iat,
\* refresh exp, refresh iat), in whole seconds as jwt.encode keeps them.
authenticate_user_at(req, fault, jti, reads) ==
    LET user == get_by_email(req.email)
        t == reads[4]
        tr == req.trace_id
        s1 == Append(req.steps, "checkpw")
        s2 == Append(s1, "create_access_token")
        s3 == Append(s2, "create_refresh_token")
        access_token == create_access_token(user.id, reads[1], reads[2])
        refresh_token == create_refresh_token(user.id, reads[3], reads[4], jti)
    IN  IF fault = "store"
        THEN unexpected(store_error, tr, req.steps, req.log, <<>>)
        ELSE IF user = NoUser
        THEN [out |-> user_not_found_error(tr), steps |-> req.steps,
              log |-> req.log, issued |-> <<>>]
        ELSE IF ~verify_password(req.password, user.password_hash)
        THEN unexpected(wrong_password_error(tr), tr, s1,
                        Append(req.log, LogRec("WARNING", "Authentication failed",
                                               tr, user.id, "invalid_credentials")),
                        <<>>)
        ELSE IF fault = "codec"
        THEN unexpected(codec_error, tr, s3, req.log, <<access_token>>)
        ELSE [out |-> Returned(envelope(user, access_token, refresh_token, tr, t)),
              steps |-> s3,
              log |-> Append(req.log, LogRec("INFO", "User authenticated successfully",
                                             tr, user.id, None)),
              issued |-> <<access_token, refresh_token>>]

\* authenticate_user when the clock shows t at every reading.
authenticate_user(req, fault, jti, t) ==
    authenticate_user_at(req, fault, jti, <<t, t, t, t>>)

\* A slot with no call in it.  Of a call it holds the arguments, where it
\* stands (pc), the limiter's answer, whether the user store failed, the
\* collaborator calls made, the log records written, the tokens created and
\* what it returned or raised.
IdleReq == [pc |-> "idle", email |-> None, password |-> None, trace_id |-> None,
            client_ip |-> None, limiter_ok |-> FALSE, store_failed |-> FALSE,
            steps |-> <<>>, log |-> <<>>, issued |-> <<>>, out |-> NoOut]

\* ------------------------------------------------------------ actions
\* The clock moves forward to a later instant of pts.
Tick(pts) ==
    /\ \E t \in pts : t > now /\ now' = t
    /\ UNCHANGED <<attempts, pending, last, admitted, epoch, lastDenied,
                   reqs, logins, wallet, verdict, seen, verified>>

\* The event loop runs one issued check_rate_limit(k) call.
RunCheck(k) ==
    /\ pending[k] > 0
    /\ pending' = [pending EXCEPT ![k] = @ - 1]
    /\ RateLimitStep(k)
    /\ UNCHANGED <<now, reqs, logins, wallet, verdict, seen, verified>>

\* A caller calls login_endpoint: the wrapper of RateLimiter.__call__ runs
\* check_rate_limit and raises when it says no; otherwise login_endpoint and
\* authenticate_user run up to the await of User.get_by_email.
LoginStart(s, email, password, trace_id, client_ip) ==
    LET key == rate_limit_key(client_ip)
        r == check_rate_limit(attempts[key], now)
        req == [IdleReq EXCEPT !.email = email, !.password = password,
                               !.trace_id = trace_id, !.client_ip = client_ip,
                               !.limiter_ok = r.ok,
                               !.steps = <<"check_rate_limit">>]
    IN  /\ reqs[s].pc = "idle"
        /\ logins < MaxLogins
        /\ logins' = logins + 1
        /\ RateLimitStep(key)
        /\ reqs' = [reqs EXCEPT ![s] =
              IF ~admit_gate(r.ok)
              THEN [req EXCEPT !.pc = "done", !.out = rate_limit_error]
              ELSE IF trace_id = None
              THEN [req EXCEPT !.pc = "done", !.out = uuid_name_error]
              ELSE [req EXCEPT !.pc = "fetch",
                               !.steps = Append(@, "get_by_email")]]
        /\ UNCHANGED <<now, pending, wallet, verdict, seen, verified>>

\* User.get_by_email answers and authenticate_user runs to its end while the
\* clock moves on: d1, d2, d3 are the whole seconds that begin between one
\* reading of the clock and the next.
LoginResumeSlow(s, jti, d1, d2, d3) ==
    LET reads == <<now, now + d1, now + d1 + d2, now + d1 + d2 + d3>>
        r == authenticate_user_at(reqs[s], "none", jti, reads)
    IN  /\ reqs[s].pc = "fetch"
        /\ now' = reads[4]
        /\ reqs' = [reqs EXCEPT ![s] = [@ EXCEPT !.pc = "done", !.out = r.out,
                                                 !.steps = r.steps, !.log = r.log,
                                                 !.issued = r.issued]]
        /\ UNCHANGED <<attempts, pending, last, admitted, epoch, lastDenied,
                       logins, wallet, verdict, seen, verified>>

\* User.get_by_email answers (or fails) and authenticate_user runs to its end.
LoginResume(s, fault, jti) ==
    LET r == authenticate_user(reqs[s], fault, jti, now)
    IN  /\ reqs[s].pc = "fetch"
        /\ reqs' = [reqs EXCEPT ![s] = [@ EXCEPT !.pc = "done", !.out = r.out,
                                                 !.store_failed = (fault = "store"),
                                                 !.steps = r.steps, !.log = r.log,
                                                 !.issued = r.issued]]
        /\ UNCHANGED <<now, attempts, pending, last, admitted, epoch, lastDenied,
                       logins, wallet, verdict, seen, verified>>

\* The call made the collaborator call named step.
Made(steps, step) == \E i \in 1..Len(steps) : steps[i] = step

\* Mutant: a login that succeeds takes its attempt back off the list of its
\* key.
LoginResumeLogged_refund(s, fault, jti) ==
    LET r == authenticate_user(reqs[s], fault, jti, now)
        key == rate_limit_key(reqs[s].client_ip)
        n == Len(attempts[key])
    IN  /\ reqs[s].pc = "fetch"
        /\ reqs' = [reqs EXCEPT ![s] = [@ EXCEPT !.pc = "done", !.out = r.out,
                                                 !.store_failed = (fault = "store"),
                                                 !.steps = r.steps, !.log = r.log,
                                                 !.issued = r.issued]]
        /\ verified' = IF Made(r.steps, "checkpw")
                       THEN [verified EXCEPT ![key] = Append(@, now)]
                       ELSE verified
        /\ attempts' = IF r.out.returned /\ n > 0
                       THEN [attempts EXCEPT ![key] = SubSeq(@, 1, n - 1)]
                       ELSE attempts
        /\ UNCHANGED <<now, pending, last, admitted, epoch, lastDenied,
                       logins, wallet, verdict, seen>>

\* LoginResume, observed: the time of the password verification, when the
\* call makes one, is written to the history of the key of the call.
LoginResumeLogged(s, fault, jti) ==
    LET r == authenticate_user(reqs[s], fault, jti, now)
        key == rate_limit_key(reqs[s].client_ip)
    IN  /\ reqs[s].pc = "fetch"
        /\ reqs' = [reqs EXCEPT ![s] = [@ EXCEPT !.pc = "done", !.out = r.out,
                                                 !.store_failed = (fault = "store"),
                                                 !.steps = r.steps, !.log = r.log,
                                                 !.issued = r.issued]]
        /\ verified' = IF Made(r.steps, "checkpw")
                       THEN [verified EXCEPT ![key] = Append(@, now)]
                       ELSE verified
        /\ UNCHANGED <<now, attempts, pending, last, admitted, epoch, lastDenied,
                       logins, wallet, verdict, seen>>

\* The caller has its answer; the slot is free for the next call.
Return(s) ==
    /\ reqs[s].pc = "done"
    /\ reqs' = [reqs EXCEPT ![s] = IdleReq]
    /\ UNCHANGED <<now, attempts, pending, last, admitted, epoch, lastDenied,
                   logins, wallet, verdict, seen, verified>>

\* ---- tokens
NoPayload == [sub |-> None, exp |-> 0, iat |-> 0, type |-> None, jti |-> None]
\* A string that is no token at all.
Garbage == [payload |-> NoPayload, sig |-> <<>>]
NoVerdict == [called |-> FALSE, tok |-> Garbage, t |-> 0, out |-> NoOut]
UserIds == {"u1", "u2"}

\* What a client can present: the tokens it was issued, those tokens with the
\* type or the expiry rewritten under the old signature, a token signed with
\* a key of its own, and garbage.
Presentable ==
    wallet
    \cup {[w EXCEPT !.payload.type = "access"] : w \in wallet}
    \cup {[w EXCEPT !.payload.exp = @ + RefreshTTL] : w \in wallet}
    \cup {jwt_encode([sub |-> u, exp |-> now + AccessTTL, iat |-> now,
                      type |-> "access", jti |-> None], OtherKey) : u \in UserIds}
    \cup {Garbage}

\* _create_access_token(user_id) is called and the token handed out.
IssueAccess(u) ==
    /\ Cardinality(wallet) < MaxTokens
    /\ wallet' = wallet \cup {create_access_token(u, now, now)}
    /\ UNCHANGED <<now, attempts, pending, last, admitted, epoch, lastDenied,
                   reqs, logins, verdict, seen, verified>>

\* _create_refresh_token(user_id) is called and the token handed out.
IssueRefresh(u, jti) ==
    /\ Cardinality(wallet) < MaxTokens
    /\ wallet' = wallet \cup {create_refresh_token(u, now, now, jti)}
    /\ UNCHANGED <<now, attempts, pending, last, admitted, epoch, lastDenied,
                   reqs, logins, verdict, seen, verified>>

\* Mutant: verify_token goes through the limiter as login_endpoint does.
VerifyToken_rate_limited(tok, trace_id) ==
    LET r == check_rate_limit(attempts["10.0.0.1"], now)
        out == IF r.ok THEN verify_token(tok, trace_id, now) ELSE rate_limit_error
    IN  /\ RateLimitStep("10.0.0.1")
        /\ verdict' = [called |-> TRUE, tok |-> tok, t |-> now, out |-> out]
        /\ seen' = seen \cup {out.error_code}
        /\ UNCHANGED <<now, pending, reqs, logins, wallet, verified>>

\* verify_token is called with a presented token.
VerifyToken(tok, trace_id) ==
    /\ verdict' = [called |-> TRUE, tok |-> tok, t |-> now,
                   out |-> verify_token(tok, trace_id, now)]
    /\ seen' = seen \cup {verify_token(tok, trace_id, now).error_code}
    /\ UNCHANGED <<now, attempts, pending, last, admitted, epoch, lastDenied,
                   reqs, logins, wallet, verified>>


InitLimiter ==
    /\ now = 0
    /\ attempts = [k \in Keys |-> <<>>]
    /\ last = [key |-> None, t |-> 0, ok |-> TRUE, pre |-> <<>>]
    /\ admitted = [k \in Keys |-> <<>>]
    /\ epoch = [k \in Keys |-> NoEpoch]
    /\ lastDenied = [k \in Keys |-> -1]
    /\ reqs = [s \in Slots |-> IdleReq]
    /\ logins = 0
    /\ wallet = {}
    /\ verdict = NoVerdict
    /\ seen = {}
    /\ verified = [k \in Keys |-> <<>>]

\* Rate limiter alone: MaxCalls callers, spread over the keys in any way, run
\* at any instants.
InitRL ==
    /\ InitLimiter
    /\ \E n \in 0..MaxCalls :
          pending = [k \in Keys |-> IF k = "unknown" THEN n ELSE MaxCalls - n]
TickRL == Tick(RLClock)
NextRL == TickRL \/ \E k \in Keys : RunCheck(k)
SpecRL == InitRL /\ [][NextRL]_vars

\* Burst: NumCallers callers call check_rate_limit for one key at once, and
\* the event loop runs them in any order inside one window.
InitBurst ==
    /\ InitLimiter
    /\ \E k \in Keys : pending = [j \in Keys |-> IF j = k THEN NumCallers ELSE 0]
TickBurst == Tick(BurstClock)
NextBurst == TickBurst \/ \E k \in Keys : RunCheck(k)
SpecBurst == InitBurst /\ [][NextBurst]_vars

\* The login service: callers log in, at most one per slot at a time.
NoPending == pending = [k \in Keys |-> 0]
Init == InitLimiter /\ NoPending
TickLogin == Tick(LoginClock)
Next ==
    \/ TickLogin
    \/ \E s \in Slots, email \in Emails, password \in Passwords,
          trace_id \in TraceIds, client_ip \in ClientIps :
            LoginStart(s, email, password, trace_id, client_ip)
    \/ \E s \in Slots, fault \in Faults, jti \in Jtis : LoginResume(s, fault, jti)
    \/ \E s \in Slots : Return(s)
Spec == Init /\ [][Next]_vars

\* The token codec: tokens are issued and presented for verification.
InitTok == InitLimiter /\ NoPending
TickTok == Tick(TokClock)
NextTok ==
    \/ TickTok
    \/ \E u \in UserIds : IssueAccess(u)
    \/ \E u \in UserIds, jti \in Jtis : IssueRefresh(u, jti)
    \/ \E tok \in Presentable, trace_id \in TraceIds \ {None} : VerifyToken(tok, trace_id)
SpecTok == InitTok /\ [][NextTok]_vars

\* Logins and verifications side by side: clients behind one address log in,
\* and the tokens their logins returned, or garbage, are presented to
\* verify_token at any time.
VerifyClock == {0, 1, Window}
InitVerify == InitLimiter /\ NoPending
TickVerify == Tick(VerifyClock)
VerifyIssued(s, i) ==
    /\ reqs[s].pc = "done"
    /\ i <= Len(reqs[s].issued)
    /\ VerifyToken(reqs[s].issued[i], "trace-1")
NextVerify ==
    \/ TickVerify
    \/ \E s \in Slots, password \in Passwords :
            LoginStart(s, "a@x.com", password, "trace-1", "10.0.0.1")
    \/ \E s \in Slots : LoginResume(s, "none", "jti-1")
    \/ \E s \in Slots : Return(s)
    \/ \E s \in Slots, i \in 1..2 : VerifyIssued(s, i)
    \/ VerifyToken(Garbage, "trace-1")
SpecVerify == InitVerify /\ [][NextVerify]_vars

\* Logins while the clock runs: a second may begin between any two readings
\* of the clock inside one authenticate_user call.
IssueClock == {0, 1}
Skews == {0, 1}
\* Logins made while the clock runs.
MaxSlowLogins == 3
InitIssue == InitLimiter /\ NoPending
TickIssue == Tick(IssueClock)
NextIssue ==
    \/ TickIssue
    \/ \E s \in Slots, email \in Emails :
            /\ logins < MaxSlowLogins
            /\ LoginStart(s, email, "pw1", "trace-1", "10.0.0.1")
    \/ \E s \in Slots, d1 \in Skews, d2 \in Skews, d3 \in Skews :
            LoginResumeSlow(s, "jti-1", d1, d2, d3)
    \/ \E s \in Slots : Return(s)
SpecIssue == InitIssue /\ [][NextIssue]_vars

\* Logins from one address with the password verifications observed: the
\* user store answers when it answers, at once or a window later.
InitQuota == InitLimiter /\ NoPending
TickQuota == Tick(LoginClock)
NextQuota ==
    \/ TickQuota
    \/ \E s \in Slots, password \in Passwords :
            LoginStart(s, "a@x.com", password, "trace-1", "10.0.0.1")
    \/ \E s \in Slots, fault \in {"none", "store"} : LoginResumeLogged(s, fault, "jti-1")
    \/ \E s \in Slots : Return(s)
SpecQuota == InitQuota /\ [][NextQuota]_vars

\* ------------------------------------------------------------ claims
\* C2: starting from an empty window of a key, the first n <= MaxAttempts
\* calls made within one window are all admitted, and call MaxAttempts + 1
\* within the same window is denied.
C2_FirstAdmittedThenDenied ==
    \A k \in Keys :
        epoch[k].start >= 0 =>
            /\ epoch[k].calls <= MaxAttempts => epoch[k].ok = epoch[k].calls
            /\ epoch[k].calls = MaxAttempts + 1 => epoch[k].ok = MaxAttempts

C2_Witness ==
    \E k \in Keys :
        /\ epoch[k].start >= 0
        /\ epoch[k].calls = MaxAttempts + 1
        /\ last.key = k /\ ~last.ok

\* C3: when NumCallers callers call check_rate_limit for one key at once
\* inside one window, no order of running them admits more than MaxAttempts,
\* and once all have run exactly MaxAttempts were admitted and the other
\* NumCallers - MaxAttempts denied.
C3_BurstAdmitsExactlyMax ==
    \A k \in Keys :
        /\ Len(admitted[k]) <= MaxAttempts
        /\ (epoch[k].calls = NumCallers /\ pending[k] = 0) =>
               /\ Len(admitted[k]) = MaxAttempts
               /\ epoch[k].calls - epoch[k].ok = NumCallers - MaxAttempts

C3_Witness ==
    \E k \in Keys :
        /\ pending[k] = 0
        /\ epoch[k].calls = NumCallers
        /\ Len(admitted[k]) = MaxAttempts
        /\ admitted[k][1] < admitted[k][MaxAttempts]

\* C4: for every key and every instant t, at most MaxAttempts admitted calls
\* have their timestamp in the trailing interval (t - Window, t].  The count
\* for t is largest when t is the time of an admitted call or the current
\* time, so these are the instants compared.
C4_TrailingWindowBound ==
    \A k \in Keys :
        \A t \in {admitted[k][i] : i \in 1..Len(admitted[k])} \cup {now} \cup RLClock :
            Cardinality(InTrailing(admitted[k], t)) <= MaxAttempts

C4_Witness ==
    \E k \in Keys :
        /\ Len(admitted[k]) > MaxAttempts
        /\ Cardinality(InTrailing(admitted[k], now)) = MaxAttempts

\* C5: a call for a key that holds MaxAttempts recorded attempts, made one
\* window or more after the oldest of them, is admitted.
C5_SlidingReadmission ==
    (/\ last.key # None
     /\ Len(last.pre) = MaxAttempts
     /\ last.t >= last.pre[1] + Window) => last.ok

\* The key was denied after its oldest attempt was recorded, the other
\* recorded attempts are still inside the window, and the call is admitted.
C5_Witness ==
    /\ last.key # None
    /\ last.ok
    /\ Len(last.pre) = MaxAttempts
    /\ last.t >= last.pre[1] + Window
    /\ last.pre[2] > last.t - Window
    /\ lastDenied[last.key] >= last.pre[1]
    /\ Len(attempts[last.key]) = MaxAttempts

\* C6: a denied call records nothing: the key is left with exactly the
\* timestamps it had before the call that are less than one window old.
C6_DeniedCallNotRecorded ==
    (last.key # None /\ ~last.ok) =>
        attempts[last.key] = SelectSeq(last.pre, LAMBDA a : last.t - a < Window)

C6_Witness ==
    /\ last.key # None
    /\ ~last.ok
    /\ Len(attempts[last.key]) = MaxAttempts
    /\ attempts[last.key][MaxAttempts] < last.t

\* ---- what the claims about a login speak of
\* The call passed the limiter, authenticate_user was entered and the user
\* store answered.
Answered(r) ==
    r.pc = "done" /\ r.limiter_ok /\ r.trace_id # None /\ ~r.store_failed
Stored(email) == \E u \in Users : u.email = email
PasswordMatches(email, password) ==
    \E u \in Users :
        u.email = email /\ u.password_hash = bcrypt_hashpw(password, u.password_hash[2])
UnknownEmail(r) == Answered(r) /\ ~Stored(r.email)
WrongPassword(r) == Answered(r) /\ Stored(r.email) /\ ~PasswordMatches(r.email, r.password)

\* C1: a login with an email the store does not hold and a login with a
\* stored email and a wrong password end with the same error: an
\* AuthenticationError with code AUTH_001 and one message.  Nothing the call
\* hands back differs between the two.
C1_EnumerationResistance ==
    \A s1, s2 \in Slots :
        (UnknownEmail(reqs[s1]) /\ WrongPassword(reqs[s2])) =>
            /\ reqs[s1].out.raised = "AuthenticationError"
            /\ reqs[s1].out.error_code = "AUTH_001"
            /\ reqs[s1].out.raised = reqs[s2].out.raised
            /\ reqs[s1].out.error_code = reqs[s2].out.error_code
            /\ reqs[s1].out.message = reqs[s2].out.message
            /\ reqs[s1].out.status_code = reqs[s2].out.status_code
            /\ reqs[s1].out.returned = reqs[s2].out.returned
            /\ reqs[s1].trace_id = reqs[s2].trace_id => reqs[s1].out = reqs[s2].out

C1_Witness ==
    \E s1, s2 \in Slots :
        /\ UnknownEmail(reqs[s1])
        /\ WrongPassword(reqs[s2])
        /\ reqs[s1].password # reqs[s2].password

\* C7: the limiter is the first thing a login consults, and a login it
\* denies ends there with the 429 error: the user store is not queried, no
\* password is verified and no token is issued in that request.
C7_RateLimitFirst ==
    \A s \in Slots :
        reqs[s].pc # "idle" =>
            /\ reqs[s].steps[1] = "check_rate_limit"
            /\ ~reqs[s].limiter_ok =>
                   /\ reqs[s].pc = "done"
                   /\ reqs[s].out.raised = "HTTPException"
                   /\ reqs[s].out.status_code = 429
                   /\ reqs[s].steps = <<"check_rate_limit">>
                   /\ reqs[s].issued = <<>>

\* A denied login, while another login goes on.
C7_Witness ==
    \E s1, s2 \in Slots :
        /\ reqs[s1].pc = "done" /\ ~reqs[s1].limiter_ok
        /\ reqs[s2].pc = "fetch"

\* C8: a login returns the success envelope only if the limiter admitted it,
\* the store holds its email and its password fits the stored hash; the
\* envelope then carries the identity summary, an access and a refresh token
\* for the identity's id and the token type marker, and in no other outcome
\* have both tokens been issued.
C8_SuccessOnlyIfVerified ==
    \A s \in Slots :
        LET r == reqs[s] IN
        /\ r.out.returned =>
               /\ r.limiter_ok
               /\ PasswordMatches(r.email, r.password)
               /\ \E u \in Users :
                      /\ u.email = r.email
                      /\ r.out.value.data.user = [id |-> u.id, email |-> u.email, name |-> u.name]
                      /\ r.out.value.data.access_token.payload.sub = u.id
                      /\ r.out.value.data.refresh_token.payload.sub = u.id
               /\ r.out.value.data.access_token.payload.type = "access"
               /\ r.out.value.data.refresh_token.payload.type = "refresh"
               /\ r.out.value.data.token_type = "bearer"
               /\ r.issued = <<r.out.value.data.access_token, r.out.value.data.refresh_token>>
        /\ Len(r.issued) = 2 => r.out.returned

C8_Witness ==
    \E s \in Slots :
        /\ reqs[s].pc = "done"
        /\ reqs[s].out.returned
        /\ Len(reqs[s].issued) = 2

\* C9: verify_token rejects a token of the wrong type with AUTH_002, an
\* expired token with AUTH_003 and a token that does not decode or is not
\* signed by the service with AUTH_004, always as an AuthorizationError with
\* exactly one of these codes, and returns the subject of a token it accepts.
C9_TokenErrorCodes ==
    verdict.called =>
        LET tok == verdict.tok
            out == verdict.out
            code == IF tok \notin wallet THEN "AUTH_004"
                    ELSE IF verdict.t > tok.payload.exp THEN "AUTH_003"
                    ELSE IF tok.payload.type # "access" THEN "AUTH_002"
                    ELSE None
        IN  /\ out.returned <=> code = None
            /\ out.returned => out.value = tok.payload.sub
            /\ ~out.returned =>
                   /\ out.raised = "AuthorizationError"
                   /\ out.error_code = code
                   /\ out.error_code \in {"AUTH_002", "AUTH_003", "AUTH_004"}

\* All three rejections and an acceptance have happened.
C9_Witness ==
    /\ seen = {"AUTH_002", "AUTH_003", "AUTH_004", None}
    /\ verdict.called /\ verdict.out.returned

C11_ExpiredBeforeType ==
    verdict.called =>
        LET tok == verdict.tok
            signed == tok.sig = <<"HS256", "JWT_SECRET_KEY", tok.payload>>
        IN  /\ (signed /\ verdict.t > tok.payload.exp) =>
                   /\ ~verdict.out.returned
                   /\ verdict.out.error_code = "AUTH_003"
                   /\ verdict.out.message = "Token has expired"
            /\ ~signed =>
                   /\ ~verdict.out.returned
                   /\ verdict.out.error_code = "AUTH_004"

\* An expired refresh token has been presented to verify_token.
C11_Witness ==
    /\ verdict.called
    /\ verdict.tok \in wallet
    /\ verdict.tok.payload.type = "refresh"
    /\ verdict.t > verdict.tok.payload.exp
    /\ verdict.out.error_code = "AUTH_003"


\* ---- C12
\* The login of r ended in a failure of the user store, or of the token codec
\* after the access token was made and before the refresh token was.
StoreOrCodecFailed(r) ==
    r.pc = "done" /\ (r.store_failed \/ Len(r.issued) = 1)

\* C12, as stated: an unexpected failure of the user store or of token
\* issuance during a login ends in InternalError, is logged with the trace
\* id, and reaches the caller as an opaque InternalError: neither the
\* original exception nor its message reaches the caller.
C12_OpaqueInternalError ==
    \A s \in Slots :
        LET r == reqs[s]
        IN  StoreOrCodecFailed(r) =>
                /\ \E i \in 1..Len(r.log) :
                       r.log[i].level = "ERROR" /\ r.log[i].trace_id = r.trace_id
                /\ r.out.raised = "InternalError"
                /\ r.out.message \notin {store_error.message, codec_error.message}

\* ---- C13
\* The terminal state a finished login is in, read off what the caller got.
Terminal(r) ==
    IF r.out.returned THEN "Success"
    ELSE IF r.out.raised = "HTTPException" /\ r.out.status_code = 429
    THEN "RateLimited"
    ELSE IF r.out.raised = "AuthenticationError" /\ r.out.error_code = "AUTH_001"
    THEN "InvalidCredentials"
    ELSE IF r.out.raised = "InternalError" THEN "InternalError"
    ELSE "none"

\* C13, as stated: every login ends in exactly one of Success, RateLimited,
\* InvalidCredentials, InternalError, and in each of them the caller receives
\* the envelope {data, error, meta} with exactly one of data and error
\* non-null: data on Success, error otherwise.
C13_UniformEnvelope ==
    \A s \in Slots :
        LET r == reqs[s]
        IN  r.pc = "done" =>
                /\ Terminal(r) \in {"Success", "RateLimited", "InvalidCredentials",
                                    "InternalError"}
                /\ r.out.returned
                /\ DOMAIN r.out.value = {"data", "error", "meta"}
                /\ IF Terminal(r) = "Success"
                   THEN /\ r.out.value.error = None
                        /\ "access_token" \in DOMAIN r.out.value.data
                   ELSE /\ r.out.value.data = None
                        /\ "code" \in DOMAIN r.out.value.error

\* ---- C14
\* The trace id the outcome of a login carries: meta.trace_id of the envelope,
\* or the trace_id of the raised error.
carried_trace_id(r) ==
    IF r.out.returned THEN r.out.value.meta.trace_id ELSE r.out.trace_id

\* C14, as stated: the outcome of a login carries the caller's trace id
\* unchanged on Success, InvalidCredentials and RateLimited, and a login
\* called without a trace id still completes, with a generated one.
C14_TraceIdCarried ==
    \A s \in Slots :
        LET r == reqs[s]
        IN  r.pc = "done" =>
                /\ (r.trace_id # None /\ Terminal(r) \in {"Success", "RateLimited",
                                                          "InvalidCredentials"})
                       => carried_trace_id(r) = r.trace_id
                /\ r.trace_id = None =>
                       /\ r.out.raised # "NameError"
                       /\ carried_trace_id(r) # None

\* ---- C15
\* The entries of seq newer than the cutoff of a call made at t.
Fresh(seq, t) == SelectSeq(seq, LAMBDA a : a > t - Window)

\* C15: check_rate_limit prunes the list of its key before it reads it.  The
\* count compared with MaxAttempts is that of the entries newer than
\* now - Window; when the call returns the list holds no timestamp
\* <= now - Window, and the entries newer than that which it held before the
\* call are all still there, in their order.
C15_PrunedBeforeRead ==
    last.key # None =>
        LET post == attempts[last.key]
            fresh == Fresh(last.pre, last.t)
        IN  /\ last.ok <=> Len(fresh) < MaxAttempts
            /\ \A i \in 1..Len(post) : ~(post[i] <= last.t - Window)
            /\ Len(post) >= Len(fresh)
            /\ SubSeq(post, 1, Len(fresh)) = fresh

\* A call found an entry exactly one window old and a newer one: the first
\* is gone and the second is kept.
C15_Witness ==
    /\ last.key # None
    /\ \E i \in 1..Len(last.pre) : last.pre[i] = last.t - Window
    /\ \E i \in 1..Len(last.pre) :
           /\ last.pre[i] > last.t - Window
           /\ \E j \in 1..Len(attempts[last.key]) :
                  attempts[last.key][j] = last.pre[i]
    /\ \A j \in 1..Len(attempts[last.key]) :
           attempts[last.key][j] # last.t - Window

\* ---- C16
\* The step is the run of a check_rate_limit(k) call.
IsCheck(k) == pending'[k] = pending[k] - 1

\* A check_rate_limit(k) call leaves the list of every other key as it was,
\* and its answer is decided by the calls admitted for k alone.
KeyFrame ==
    \A k \in Keys :
        IsCheck(k) =>
            /\ \A j \in Keys \ {k} : attempts'[j] = attempts[j]
            /\ last'.key = k
            /\ last'.ok <=> Cardinality(InTrailing(admitted[k], now)) < MaxAttempts

\* A call issued for k can run, whatever calls are issued for other keys and
\* whatever their lists hold.
NeverBlocked == \A k \in Keys : pending[k] > 0 => ENABLED RunCheck(k)

\* C16: keys are independent.  A check_rate_limit(k) call changes the list of
\* no other key, its result depends on the admitted calls of k only (so a key
\* whose quota is used up denies no other key), and an issued call for k is
\* never blocked by the calls issued for other keys.
C16_KeysIndependent == []NeverBlocked /\ [][KeyFrame]_vars

\* One key has been denied at this instant, with its quota used up, and a
\* call for another key is admitted at the same instant.
C16_Witness ==
    \E k \in Keys :
        /\ Len(attempts[k]) = MaxAttempts
        /\ lastDenied[k] = now
        /\ last.key \in Keys \ {k}
        /\ last.ok
        /\ last.t = now
        /\ pending[k] > 0

\* ---- C17
\* Whether a login for key k made at time t would be admitted.
WouldAdmit(k, t) == check_rate_limit(attempts[k], t).ok

\* C17: verify_token is stateless and never rate-limited.  A step in which
\* verify_token answers changes no list of the limiter and no history of it,
\* so every key's admission outcome is what it was; the answer is never the
\* limiter's 429, also while the key of the client is denied for login.
C17_VerifyNotRateLimited ==
    [][ (verdict' # verdict \/ seen' # seen) =>
            /\ attempts' = attempts
            /\ admitted' = admitted
            /\ lastDenied' = lastDenied
            /\ last' = last
            /\ now' = now
            /\ reqs' = reqs
            /\ \A k \in Keys : WouldAdmit(k, now)' = WouldAdmit(k, now)
            /\ verdict'.out.status_code # 429
            /\ verdict'.out = verify_token(verdict'.tok, "trace-1", now) ]_vars

\* The address is denied for login right now, and the access token that an
\* earlier login from it returned has just been verified and accepted.
C17_Witness ==
    /\ ~WouldAdmit("10.0.0.1", now)
    /\ lastDenied["10.0.0.1"] = now
    /\ verdict.called
    /\ verdict.t = now
    /\ verdict.out.returned
    /\ \E s \in Slots :
           /\ reqs[s].pc = "done"
           /\ reqs[s].client_ip = "10.0.0.1"
           /\ Len(reqs[s].issued) = 2
           /\ verdict.tok = reqs[s].issued[1]
    /\ "AUTH_002" \in seen

\* ---- C18
\* C18, as stated: the tokens a login issues carry the claim set of their
\* kind.  The access token has sub = the id of the user, type = access, no
\* jti and exp = iat + access TTL; the refresh token has sub, type = refresh,
\* a jti and exp = iat + refresh TTL; the access TTL is shorter than the
\* refresh TTL and the access token expires before the refresh token.
C18_TokenClaimSets ==
    \A s \in Slots :
        LET r == reqs[s]
        IN  (r.pc = "done" /\ Len(r.issued) = 2) =>
                LET a == r.issued[1].payload
                    f == r.issued[2].payload
                IN  /\ a.sub = get_by_email(r.email).id
                    /\ a.type = "access"
                    /\ a.jti = None
                    /\ f.sub = get_by_email(r.email).id
                    /\ f.type = "refresh"
                    /\ f.jti \in Jtis
                    /\ AccessTTL < RefreshTTL
                    /\ a.exp < f.exp
                    /\ f.iat <= now
                    /\ a.exp = a.iat + AccessTTL
                    /\ f.exp = f.iat + RefreshTTL

\* ---- C19
\* The admitted attempts of k that have not aged out are all on its list.
AttemptsKept(k) == Fresh(attempts[k], now) = Fresh(admitted[k], now)

\* The logins for key k that are past the limiter and wait for the user store.
InFlight(k) ==
    {s \in Slots : reqs[s].pc = "fetch" /\ rate_limit_key(reqs[s].client_ip) = k}

\* C19, as stated: an admitted attempt stays on the list of its key until it
\* ages out, and hence the password verifications made for a key in the
\* trailing window are at most MaxAttempts.
C19_VerificationsPerWindow ==
    \A k \in Keys :
        /\ AttemptsKept(k)
        /\ Cardinality(InTrailing(verified[k], now)) <= MaxAttempts

\* Every login past the limiter was admitted and is on record; the
\* admissions of a key in a trailing window are at most MaxAttempts; and each
\* password verification belongs to an admission of its own made no later
\* than it, so up to any instant a key has had no more verifications than
\* admissions.
QuotaInv ==
    \A k \in Keys :
        /\ AttemptsKept(k)
        /\ \A t \in {admitted[k][i] : i \in 1..Len(admitted[k])} \cup {now} :
               Cardinality(InTrailing(admitted[k], t)) <= MaxAttempts
        /\ Len(verified[k]) + Cardinality(InFlight(k)) <= Len(admitted[k])
        /\ \A i \in 1..Len(verified[k]) : admitted[k][i] <= verified[k][i]
        /\ \A s \in InFlight(k) : reqs[s].limiter_ok

\* A password verification, whatever its outcome, leaves the list of every
\* key and the record of admissions as they were.
VerificationFrame ==
    verified' # verified => (attempts' = attempts /\ admitted' = admitted)

\* C19, amended: an admitted attempt is recorded before the login body runs
\* and stays on the list of its key until it ages out, whatever the outcome;
\* admissions per key and trailing window are at most MaxAttempts, and
\* password verifications are bounded by admissions (one each, no earlier
\* than the admission), not by the window they happen to run in.
C19_AdmissionsBoundVerifications == []QuotaInv /\ [][VerificationFrame]_vars

\* More than MaxAttempts password verifications have run for one address in
\* the trailing window, one ending in success and one in a rejection, while
\* at most MaxAttempts logins were admitted in it.
C19_Witness ==
    \E k \in Keys :
        /\ Cardinality(InTrailing(verified[k], now)) > MaxAttempts
        /\ Cardinality(InTrailing(admitted[k], now)) <= MaxAttempts
        /\ \E s \in Slots : reqs[s].pc = "done" /\ reqs[s].out.returned
        /\ \E s \in Slots :
               reqs[s].pc = "done" /\ reqs[s].out.raised = "AuthenticationError"

\* ---- C20
\* The step is the call of login_endpoint that fills slot s.
IsLoginCall(s) == reqs[s].pc = "idle" /\ reqs'[s].pc # "idle"

\* C20: the key a login is counted against is its client_ip argument, and
\* "unknown" for every call that gives none.  The call is admitted exactly
\* when fewer than MaxAttempts calls of that key were admitted in the
\* trailing window, whatever its email and whoever makes it; a call that is
\* not admitted ends with the 429 at once, and the list of no other key
\* changes.
C20_SharedUnknownKey ==
    [][ \A s \in Slots :
            IsLoginCall(s) =>
                LET r == reqs'[s]
                    key == IF r.client_ip = None THEN "unknown" ELSE r.client_ip
                IN  /\ last'.key = key
                    /\ last'.ok = r.limiter_ok
                    /\ \A j \in Keys \ {key} : attempts'[j] = attempts[j]
                    /\ r.limiter_ok <=>
                           Cardinality(InTrailing(admitted[key], now)) < MaxAttempts
                    /\ ~r.limiter_ok =>
                           /\ r.pc = "done"
                           /\ r.out = rate_limit_error
                           /\ attempts'[key] = Fresh(attempts[key], now) ]_vars

\* MaxAttempts calls without client_ip were admitted in this window; a
\* further one has just been denied, while a call without client_ip for
\* another email, admitted before, is still running.
C20_Witness ==
    \E s \in Slots, o \in Slots :
        /\ reqs[s].pc = "done"
        /\ reqs[s].client_ip = None
        /\ reqs[s].out = rate_limit_error
        /\ lastDenied["unknown"] = now
        /\ Cardinality(InTrailing(admitted["unknown"], now)) = MaxAttempts
        /\ attempts["10.0.0.1"] = <<>>
        /\ reqs[o].pc = "fetch"
        /\ reqs[o].client_ip = None
        /\ reqs[o].email # reqs[s].email

====
